---- MODULE Spec2Model ----
(***************************************************************************)
(* State machine of the workout session lifecycle of src/App.js: the       *)
(* React state of App (active session, inputs, rest timer), the Firestore  *)
(* workoutLogs collection, and the addDoc calls in flight.  One action per *)
(* event handler, interval callback or promise continuation.               *)
(***************************************************************************)
EXTENDS Integers, Sequences, FiniteSets, TLC

VARIABLES
    workouts,            \* useState([])     templates delivered by onSnapshot
    activeWorkout,       \* useState(null)   the session being performed
    currentScreen,       \* useState('home')
    timerActive,         \* useState(false)
    timerPaused,         \* useState(false)
    timerSeconds,        \* useState(180)
    timerIntervalRef,    \* TRUE while a setInterval installed by the effect is live
    bodyWeight,          \* useState('')
    showBodyWeightInput, \* useState(false)
    workoutNotes,        \* useState('')
    pending,             \* addDoc calls of handleFinishWorkout awaiting their result
    logStore,            \* documents of the workoutLogs collection, in append order
    nextSid,             \* history: sessions started so far + 1
    steps,               \* history: handlers run so far
    discarded,           \* history: the sessions ended by the discard button
    alertShown           \* the alert() text the last handler displayed, "" if none

vars == <<workouts, activeWorkout, currentScreen, timerActive, timerPaused,
          timerSeconds, timerIntervalRef, bodyWeight, showBodyWeightInput,
          workoutNotes, pending, logStore, nextSid, steps, discarded, alertShown>>

timerVars == <<timerActive, timerPaused, timerSeconds, timerIntervalRef>>
inputVars == <<bodyWeight, showBodyWeightInput, workoutNotes>>

----------------------------------------------------------------------------
(* Bounds of the explored environment *)

MaxSteps == 7       \* handlers, callbacks and continuations run in one behaviour

(* Program constants *)

DefaultDuration == 180

----------------------------------------------------------------------------
(* Values *)

NoWorkout == [null |-> TRUE]

Fields == {"reps", "weight"}

\* what the user types in a number input: e.target.value
InputValues(field) == IF field = "reps" THEN {"", "10"} ELSE {"", "135"}

BodyWeightValues == {"", "170"}
NotesValues == {"", "felt strong"}

\* JavaScript truthiness of a string
Truthy(s) == s # ""

\* a || b on strings
OrElse(a, b) == IF Truthy(a) THEN a ELSE b

TplPush ==
    [id |-> "t1", name |-> "Push Day",
     exercises |-> << [id |-> "e1", name |-> "Bench", targetSets |-> "2"] >>]

TplPull ==
    [id |-> "t2", name |-> "Pull Day",
     exercises |-> << [id |-> "e2", name |-> "Row", targetSets |-> "1"],
                      [id |-> "e3", name |-> "Curl", targetSets |-> ""] >>]

\* a template saved with only unnamed exercises: the filter of
\* handleSaveWorkoutTemplate leaves it no exercise
TplRest == [id |-> "t3", name |-> "Rest Day", exercises |-> << >>]

\* parseInt(s, 10) of the targetSets strings in use; NaN is kept apart
ParseIntIsNaN(s) == s = ""
ParseInt(s) ==
    CASE s = "0" -> 0
      [] s = "1" -> 1
      [] s = "2" -> 2
      [] s = "3" -> 3
      [] OTHER -> 0

\* variant: every exercise starts with a single set
SeedLengthOne(targetSets) == 1

\* parseInt(ex.targetSets, 10) || 1
SeedLength(targetSets) ==
    IF ParseIntIsNaN(targetSets) \/ ParseInt(targetSets) = 0
    THEN 1 ELSE ParseInt(targetSets)

EmptySet == [reps |-> "", weight |-> "", completed |-> FALSE]

\* JSON.parse(JSON.stringify(w)): strings, booleans and arrays survive; the
\* serverTimestamp() sentinel comes back as a plain object
JsonCopy(w) == [w EXCEPT !.startTime = "plainObject"]

\* variant: the effect keeps the interval while the timer is paused
EffectRefIgnoringPause(active, paused) == active

\* the effect of [timerActive, timerPaused]: an interval is live exactly
\* while the timer is active and not paused
EffectRef(active, paused) == active /\ ~paused

----------------------------------------------------------------------------
(* Timer operations: the state they set *)

\* variant: a restart that keeps the time already counted down
StartTimerSecondsKept(duration) == IF timerActive THEN timerSeconds ELSE duration

StartTimerSeconds(duration) == duration

\* variant: a restart that leaves a paused timer paused
startTimerKeepingPause(duration) ==
    /\ timerSeconds' = StartTimerSeconds(duration)
    /\ timerActive' = TRUE
    /\ timerPaused' = timerPaused
    /\ timerIntervalRef' = EffectRef(TRUE, timerPaused)

startTimer(duration) ==
    /\ timerSeconds' = StartTimerSeconds(duration)
    /\ timerActive' = TRUE
    /\ timerPaused' = FALSE
    /\ timerIntervalRef' = EffectRef(TRUE, FALSE)

\* variant: a stop that leaves a paused timer marked paused
stopTimerKeepingPause ==
    /\ timerActive' = FALSE
    /\ timerPaused' = timerPaused
    /\ timerSeconds' = DefaultDuration

\* variant: a stop that leaves the remaining time where it was
stopTimerKeepingSeconds ==
    /\ timerActive' = FALSE
    /\ timerPaused' = FALSE
    /\ timerSeconds' = timerSeconds

stopTimer ==
    /\ timerActive' = FALSE
    /\ timerPaused' = FALSE
    /\ timerSeconds' = DefaultDuration

\* a click that leaves the timer state alone still flushes a pending effect
FlushTimerEffect ==
    /\ UNCHANGED <<timerActive, timerPaused, timerSeconds>>
    /\ timerIntervalRef' = EffectRef(timerActive, timerPaused)

----------------------------------------------------------------------------
(* Session construction and the set logger's state updates *)

SeedSets(ex) == [i \in 1..SeedLength(ex.targetSets) |-> EmptySet]

\* sid is history (which start built the object), not a field of the program
NewActiveWorkout(t, sid) ==
    [sid |-> sid,
     templateId |-> t.id,
     name |-> t.name,
     startTime |-> "serverTimestamp",
     bodyWeight |-> "",
     notes |-> "",
     exercises |-> [i \in 1..Len(t.exercises) |->
                      [id |-> t.exercises[i].id,
                       name |-> t.exercises[i].name,
                       targetSets |-> t.exercises[i].targetSets,
                       loggedSets |-> SeedSets(t.exercises[i])]],
     isCompleted |-> FALSE]

LoggedSetOf(reps, weight) == [reps |-> reps, weight |-> weight, completed |-> TRUE]

\* the updater of handleLogSet
LogSetUpdate(prev, e, s, reps, weight) ==
    [prev EXCEPT !.exercises[e].loggedSets[s] = LoggedSetOf(reps, weight)]

\* variant: the updater's push lands twice
AddSetUpdateTwice(prev, e) ==
    [prev EXCEPT !.exercises[e].loggedSets = Append(Append(@, EmptySet), EmptySet)]

\* the updater of handleAddSetToExercise
AddSetUpdate(prev, e) ==
    [prev EXCEPT !.exercises[e].loggedSets = Append(@, EmptySet)]

\* variant: filling in both fields marks the set completed
SetInputUpdateAutoComplete(prev, e, s, field, value) ==
    LET set == prev.exercises[e].loggedSets[s]
        reps == IF field = "reps" THEN value ELSE set.reps
        weight == IF field = "weight" THEN value ELSE set.weight
    IN  [JsonCopy(prev) EXCEPT !.exercises[e].loggedSets[s] =
            [reps |-> reps, weight |-> weight,
             completed |-> set.completed \/ (Truthy(reps) /\ Truthy(weight))]]

\* variant: an edit writes a fresh, uncompleted record
SetInputUpdateResetting(prev, e, s, field, value) ==
    LET set == prev.exercises[e].loggedSets[s]
    IN  [JsonCopy(prev) EXCEPT !.exercises[e].loggedSets[s] =
            [reps |-> IF field = "reps" THEN value ELSE set.reps,
             weight |-> IF field = "weight" THEN value ELSE set.weight,
             completed |-> FALSE]]

\* the updater of handleSetInputChange
SetInputUpdate(prev, e, s, field, value) ==
    IF field = "reps"
    THEN [JsonCopy(prev) EXCEPT !.exercises[e].loggedSets[s].reps = value]
    ELSE [JsonCopy(prev) EXCEPT !.exercises[e].loggedSets[s].weight = value]

\* variant: no filter on the saved sets
KeepAnySet(s) == TRUE

KeepSet(s) == s.completed

\* the record handleFinishWorkout hands to addDoc
WorkoutLogOf(w, bw, notes) ==
    [sid |-> w.sid,
     templateId |-> w.templateId,
     name |-> w.name,
     startTime |-> w.startTime,
     bodyWeight |-> OrElse(bw, OrElse(w.bodyWeight, "")),
     notes |-> OrElse(notes, OrElse(w.notes, "")),
     endTime |-> "serverTimestamp",
     isCompleted |-> TRUE,
     exercises |-> [i \in 1..Len(w.exercises) |->
                      [id |-> w.exercises[i].id,
                       name |-> w.exercises[i].name,
                       targetSets |-> w.exercises[i].targetSets,
                       loggedSets |-> SelectSeq(w.exercises[i].loggedSets, KeepSet)]]]

Active == activeWorkout # NoWorkout

ExIndices == IF Active THEN DOMAIN activeWorkout.exercises ELSE {}
SetIndices(e) == DOMAIN activeWorkout.exercises[e].loggedSets
SetAt(e, s) == activeWorkout.exercises[e].loggedSets[s]

\* what the screens render
OnActiveScreen == currentScreen = "activeWorkout" /\ Active
\* variant: the Log Set button rendered on every set
LogSetButtonAlways(e, s) == TRUE

LogSetButtonShown(e, s) == ~SetAt(e, s).completed /\ (Truthy(SetAt(e, s).reps) \/ Truthy(SetAt(e, s).weight))

----------------------------------------------------------------------------
Init ==
    /\ workouts = <<TplPull, TplPush, TplRest>>     \* sorted by name
    /\ activeWorkout = NoWorkout
    /\ currentScreen = "home"
    /\ timerActive = FALSE
    /\ timerPaused = FALSE
    /\ timerSeconds = DefaultDuration
    /\ timerIntervalRef = FALSE
    /\ bodyWeight = ""
    /\ showBodyWeightInput = FALSE
    /\ workoutNotes = ""
    /\ pending = <<>>
    /\ logStore = <<>>
    /\ nextSid = 1
    /\ steps = 0
    /\ discarded = {}
    /\ alertShown = ""

----------------------------------------------------------------------------
(* Handlers *)

\* HomeScreen Start button -> handleStartWorkout(workout)
HandleStartWorkout(t) ==
    /\ currentScreen = "home"
    /\ activeWorkout' = NewActiveWorkout(t, nextSid)
    /\ workoutNotes' = ""
    /\ bodyWeight' = ""
    /\ showBodyWeightInput' = TRUE
    /\ currentScreen' = "activeWorkout"
    /\ nextSid' = nextSid + 1
    /\ FlushTimerEffect
    /\ alertShown' = ""
    /\ UNCHANGED discarded
    /\ UNCHANGED <<workouts, pending, logStore>>

\* footer navigation
GoTo(screen) ==
    /\ currentScreen # screen
    /\ currentScreen' = screen
    /\ FlushTimerEffect
    /\ alertShown' = ""
    /\ UNCHANGED discarded
    /\ UNCHANGED <<workouts, activeWorkout, inputVars, pending, logStore, nextSid>>

\* Log Set button -> handleLogSet(exIndex, setIndex, set.reps, set.weight)
HandleLogSet(e, s) ==
    /\ OnActiveScreen
    /\ e \in ExIndices /\ s \in SetIndices(e)
    /\ LogSetButtonShown(e, s)
    /\ activeWorkout' = LogSetUpdate(activeWorkout, e, s, SetAt(e, s).reps, SetAt(e, s).weight)
    /\ startTimer(DefaultDuration)
    /\ alertShown' = ""
    /\ UNCHANGED discarded
    /\ UNCHANGED <<workouts, currentScreen, inputVars, pending, logStore, nextSid>>


\* Add Set button -> handleAddSetToExercise(exIndex)
HandleAddSetToExercise(e) ==
    /\ OnActiveScreen
    /\ e \in ExIndices
    /\ activeWorkout' = AddSetUpdate(activeWorkout, e)
    /\ FlushTimerEffect
    /\ alertShown' = ""
    /\ UNCHANGED discarded
    /\ UNCHANGED <<workouts, currentScreen, inputVars, pending, logStore, nextSid>>

\* onChange of a set's reps or weight input -> handleSetInputChange
HandleSetInputChange(e, s, field, value) ==
    /\ OnActiveScreen
    /\ e \in ExIndices /\ s \in SetIndices(e)
    /\ value # SetAt(e, s)[field]
    /\ activeWorkout' = SetInputUpdate(activeWorkout, e, s, field, value)
    /\ FlushTimerEffect
    /\ alertShown' = ""
    /\ UNCHANGED discarded
    /\ UNCHANGED <<workouts, currentScreen, inputVars, pending, logStore, nextSid>>

\* onChange of the body weight input, rendered while showBodyWeightInput
SetBodyWeight(value) ==
    /\ OnActiveScreen
    /\ showBodyWeightInput
    /\ value # bodyWeight
    /\ bodyWeight' = value
    /\ FlushTimerEffect
    /\ alertShown' = ""
    /\ UNCHANGED discarded
    /\ UNCHANGED <<workouts, activeWorkout, currentScreen, showBodyWeightInput,
                   workoutNotes, pending, logStore, nextSid>>

\* onChange of the notes textarea
SetWorkoutNotes(value) ==
    /\ OnActiveScreen
    /\ value # workoutNotes
    /\ workoutNotes' = value
    /\ FlushTimerEffect
    /\ alertShown' = ""
    /\ UNCHANGED discarded
    /\ UNCHANGED <<workouts, activeWorkout, currentScreen, bodyWeight,
                   showBodyWeightInput, pending, logStore, nextSid>>

\* variant: leaving the session saves it
DiscardPersisting ==
    /\ OnActiveScreen
    /\ activeWorkout' = NoWorkout
    /\ currentScreen' = "home"
    /\ stopTimer
    /\ timerIntervalRef' = EffectRef(FALSE, FALSE)
    /\ alertShown' = ""
    /\ discarded' = discarded \cup {activeWorkout.sid}
    /\ logStore' = Append(logStore, WorkoutLogOf(activeWorkout, bodyWeight, workoutNotes))
    /\ UNCHANGED <<workouts, inputVars, pending, nextSid>>

\* variant: leaving the session leaves the rest timer running
DiscardTimerRunning ==
    /\ OnActiveScreen
    /\ activeWorkout' = NoWorkout
    /\ currentScreen' = "home"
    /\ FlushTimerEffect
    /\ alertShown' = ""
    /\ discarded' = discarded \cup {activeWorkout.sid}
    /\ UNCHANGED <<workouts, inputVars, pending, logStore, nextSid>>

\* End Workout (Discard) button
Discard ==
    /\ OnActiveScreen
    /\ activeWorkout' = NoWorkout
    /\ currentScreen' = "home"
    /\ stopTimer
    /\ timerIntervalRef' = EffectRef(FALSE, FALSE)
    /\ alertShown' = ""
    /\ discarded' = discarded \cup {activeWorkout.sid}
    /\ UNCHANGED <<workouts, inputVars, pending, logStore, nextSid>>

\* variant: a session without a completed set cannot be finished
HandleFinishWorkoutNonEmpty ==
    /\ OnActiveScreen
    /\ \E e \in ExIndices : \E k \in SetIndices(e) : SetAt(e, k).completed
    /\ pending' = Append(pending, WorkoutLogOf(activeWorkout, bodyWeight, workoutNotes))
    /\ FlushTimerEffect
    /\ alertShown' = ""
    /\ UNCHANGED discarded
    /\ UNCHANGED <<workouts, activeWorkout, currentScreen, inputVars, logStore, nextSid>>

\* Finish & Save Workout button -> handleFinishWorkout, up to its await
HandleFinishWorkout ==
    /\ OnActiveScreen
    /\ pending' = Append(pending, WorkoutLogOf(activeWorkout, bodyWeight, workoutNotes))
    /\ FlushTimerEffect
    /\ alertShown' = ""
    /\ UNCHANGED discarded
    /\ UNCHANGED <<workouts, activeWorkout, currentScreen, inputVars, logStore, nextSid>>

RemoveAt(q, i) == [j \in 1..(Len(q) - 1) |-> IF j < i THEN q[j] ELSE q[j + 1]]

\* variant: the inputs are left as typed
FinishedInputStale == "170"

\* what the continuation of handleFinishWorkout sets after addDoc resolved
FinishedWorkout == NoWorkout
FinishedInput == ""

\* addDoc resolves: the document is stored and the rest of the try block runs
AppendOk(i) ==
    /\ i \in DOMAIN pending
    /\ logStore' = Append(logStore, pending[i])
    /\ pending' = RemoveAt(pending, i)
    /\ activeWorkout' = FinishedWorkout
    /\ currentScreen' = "home"
    /\ stopTimer
    /\ UNCHANGED timerIntervalRef       \* the effect runs after this render
    /\ bodyWeight' = FinishedInput
    /\ workoutNotes' = FinishedInput
    /\ showBodyWeightInput' = FALSE
    /\ alertShown' = ""
    /\ UNCHANGED discarded
    /\ UNCHANGED <<workouts, nextSid>>

\* variant: the catch block releases the session as the try block does
FailedWorkoutLost(w) == NoWorkout

\* what the catch block of handleFinishWorkout leaves of the session
FailedWorkout(w) == w

\* addDoc rejects: the catch block logs and alerts
AppendFail(i) ==
    /\ i \in DOMAIN pending
    /\ pending' = RemoveAt(pending, i)
    /\ activeWorkout' = FailedWorkout(activeWorkout)
    /\ alertShown' = "Failed to save workout log."
    /\ UNCHANGED discarded
    /\ UNCHANGED <<workouts, currentScreen, timerVars, inputVars, logStore, nextSid>>

\* TimerDisplay buttons, rendered while timerActive
PauseTimer ==
    /\ timerActive /\ ~timerPaused
    /\ timerPaused' = TRUE
    /\ timerIntervalRef' = EffectRef(timerActive, TRUE)
    /\ alertShown' = ""
    /\ UNCHANGED discarded
    /\ UNCHANGED <<workouts, activeWorkout, currentScreen, timerActive, timerSeconds,
                   inputVars, pending, logStore, nextSid>>

ResumeTimer ==
    /\ timerActive /\ timerPaused
    /\ timerPaused' = FALSE
    /\ timerIntervalRef' = EffectRef(timerActive, FALSE)
    /\ alertShown' = ""
    /\ UNCHANGED discarded
    /\ UNCHANGED <<workouts, activeWorkout, currentScreen, timerActive, timerSeconds,
                   inputVars, pending, logStore, nextSid>>

StopTimer ==
    /\ timerActive
    /\ stopTimer
    /\ timerIntervalRef' = EffectRef(FALSE, FALSE)
    /\ alertShown' = ""
    /\ UNCHANGED discarded
    /\ UNCHANGED <<workouts, activeWorkout, currentScreen, inputVars, pending,
                   logStore, nextSid>>

\* variant: the tick that ends the countdown rewinds it
TickResetting ==
    /\ timerIntervalRef
    /\ IF timerSeconds <= 1
       THEN /\ timerSeconds' = DefaultDuration
            /\ timerActive' = FALSE
            /\ timerIntervalRef' = FALSE
       ELSE /\ timerSeconds' = timerSeconds - 1
            /\ timerActive' = timerActive
            /\ timerIntervalRef' = EffectRef(timerActive, timerPaused)
    /\ alertShown' = ""
    /\ UNCHANGED discarded
    /\ UNCHANGED <<workouts, activeWorkout, currentScreen, timerPaused, inputVars,
                   pending, logStore, nextSid>>

\* variant: the callback never ends the countdown
TickNeverEnding ==
    /\ timerIntervalRef
    /\ timerSeconds' = IF timerSeconds <= 1 THEN timerSeconds ELSE timerSeconds - 1
    /\ timerActive' = timerActive
    /\ timerIntervalRef' = EffectRef(timerActive, timerPaused)
    /\ alertShown' = ""
    /\ UNCHANGED discarded
    /\ UNCHANGED <<workouts, activeWorkout, currentScreen, timerPaused, inputVars,
                   pending, logStore, nextSid>>

\* the setInterval callback: setTimerSeconds(prev => ...); the render it causes
\* first runs an effect still pending from the render before
Tick ==
    /\ timerIntervalRef
    /\ IF timerSeconds <= 1
       THEN /\ timerSeconds' = 0
            /\ timerActive' = FALSE
            /\ timerIntervalRef' = FALSE
       ELSE /\ timerSeconds' = timerSeconds - 1
            /\ timerActive' = timerActive
            /\ timerIntervalRef' = EffectRef(timerActive, timerPaused)
    /\ alertShown' = ""
    /\ UNCHANGED discarded
    /\ UNCHANGED <<workouts, activeWorkout, currentScreen, timerPaused, inputVars,
                   pending, logStore, nextSid>>

\* the effect of [timerActive, timerPaused] run on its own, after a render that
\* no click caused
TimerEffect ==
    /\ timerIntervalRef # EffectRef(timerActive, timerPaused)
    /\ timerIntervalRef' = EffectRef(timerActive, timerPaused)
    /\ alertShown' = ""
    /\ UNCHANGED discarded
    /\ UNCHANGED <<workouts, activeWorkout, currentScreen, timerActive, timerPaused,
                   timerSeconds, inputVars, pending, logStore, nextSid>>

----------------------------------------------------------------------------
(* The explored environment *)

\* one more handler runs, within the bound
Step(A) == steps < MaxSteps /\ steps' = steps + 1 /\ A

StartStep == \E i \in DOMAIN workouts : HandleStartWorkout(workouts[i])
NavigateStep == GoTo("home")
LogSetStep == \E e \in ExIndices : \E s \in SetIndices(e) : HandleLogSet(e, s)
AddSetStep == \E e \in ExIndices : HandleAddSetToExercise(e)
SetInputStep == \E e \in ExIndices : \E s \in SetIndices(e) : \E f \in Fields : \E v \in InputValues(f) : HandleSetInputChange(e, s, f, v)
BodyWeightStep == \E v \in BodyWeightValues : SetBodyWeight(v)
NotesStep == \E v \in NotesValues : SetWorkoutNotes(v)
AppendOkStep == \E i \in DOMAIN pending : AppendOk(i)
AppendFailStep == \E i \in DOMAIN pending : AppendFail(i)

Next ==
    \/ Step(StartStep)
    \/ Step(NavigateStep)
    \/ Step(LogSetStep)
    \/ Step(AddSetStep)
    \/ Step(SetInputStep)
    \/ Step(BodyWeightStep)
    \/ Step(NotesStep)
    \/ Step(Discard)
    \/ Step(HandleFinishWorkout)
    \/ Step(AppendOkStep)
    \/ Step(AppendFailStep)
    \/ Step(PauseTimer)
    \/ Step(ResumeTimer)
    \/ Step(StopTimer)
    \/ Step(Tick)
    \/ Step(TimerEffect)

Spec == Init /\ [][Next]_vars

----------------------------------------------------------------------------
(* The session lifecycle together with the template store: the handlers    *)
(* that write sessions, logs and templates                                  *)

\* Push Day as the edit screen saves it after a change of targetSets
TplPushEdited ==
    [id |-> "t1", name |-> "Push Day",
     exercises |-> << [id |-> "e1", name |-> "Bench", targetSets |-> "3"] >>]

\* the order of localeCompare on the template names in use
NameRank(name) ==
    CASE name = "Pull Day" -> 1
      [] name = "Push Day" -> 2
      [] name = "Rest Day" -> 3
      [] OTHER -> 4

\* the onSnapshot callback: the documents of the collection, sorted by name
SortedByName(docs) ==
    CHOOSE q \in [1..Cardinality(docs) -> docs] :
        /\ {q[i] : i \in 1..Cardinality(docs)} = docs
        /\ \A i, j \in 1..Cardinality(docs) :
              i < j => NameRank(q[i].name) < NameRank(q[j].name)

TemplateDocs == {workouts[i] : i \in DOMAIN workouts}

\* variant: deleting a template also deletes the logs made from it
DeleteTemplateCascading(i) ==
    /\ currentScreen = "home"
    /\ i \in DOMAIN workouts
    /\ workouts' = SortedByName(TemplateDocs \ {workouts[i]})
    /\ logStore' = SelectSeq(logStore, LAMBDA l : l.templateId # workouts[i].id)
    /\ FlushTimerEffect
    /\ alertShown' = ""
    /\ UNCHANGED discarded
    /\ UNCHANGED <<activeWorkout, currentScreen, inputVars, pending, nextSid>>

\* HomeScreen Delete button, confirmed -> handleDeleteWorkoutTemplate(id):
\* deleteDoc on the workouts collection, delivered back by onSnapshot
DeleteTemplate(i) ==
    /\ currentScreen = "home"
    /\ i \in DOMAIN workouts
    /\ workouts' = SortedByName(TemplateDocs \ {workouts[i]})
    /\ FlushTimerEffect
    /\ alertShown' = ""
    /\ UNCHANGED discarded
    /\ UNCHANGED <<activeWorkout, currentScreen, inputVars, pending, logStore, nextSid>>

\* HomeScreen Edit button, then Save -> handleSaveWorkoutTemplate: setDoc with
\* merge on the template's document, delivered back by onSnapshot
SaveTemplate(t) ==
    /\ currentScreen = "home"
    /\ t \notin TemplateDocs
    /\ workouts' = SortedByName({d \in TemplateDocs : d.id # t.id} \cup {t})
    /\ FlushTimerEffect
    /\ alertShown' = ""
    /\ UNCHANGED discarded
    /\ UNCHANGED <<activeWorkout, currentScreen, inputVars, pending, logStore, nextSid>>

DeleteTemplateStep == \E i \in DOMAIN workouts : DeleteTemplate(i)
SaveTemplateStep == \E t \in {TplPush, TplPushEdited} : SaveTemplate(t)

NextHistory ==
    \/ Step(StartStep)
    \/ Step(NavigateStep)
    \/ Step(LogSetStep)
    \/ Step(AddSetStep)
    \/ Step(SetInputStep)
    \/ Step(Discard)
    \/ Step(HandleFinishWorkout)
    \/ Step(AppendOkStep)
    \/ Step(AppendFailStep)
    \/ Step(DeleteTemplateStep)
    \/ Step(SaveTemplateStep)

SpecHistory == Init /\ [][NextHistory]_vars

----------------------------------------------------------------------------
(* The handlers as functions: called with arguments and in states the       *)
(* screens never call them with                                             *)

\* the updater of handleLogSet for any set index up to the array's length:
\* loggedSets[setIndex] = {...} at index = length grows the array by one
LogSetUpdateAt(prev, e, s, reps, weight) ==
    IF s \in DOMAIN prev.exercises[e].loggedSets
    THEN LogSetUpdate(prev, e, s, reps, weight)
    ELSE [prev EXCEPT !.exercises[e].loggedSets = Append(@, LoggedSetOf(reps, weight))]

\* handleLogSet(exerciseIndex, setIndex, reps, weight) on an open session
CallLogSet(e, s, reps, weight) ==
    /\ Active
    /\ e \in ExIndices
    /\ s \in 1..(Len(activeWorkout.exercises[e].loggedSets) + 1)
    /\ activeWorkout' = LogSetUpdateAt(activeWorkout, e, s, reps, weight)
    /\ startTimer(DefaultDuration)
    /\ alertShown' = ""
    /\ UNCHANGED discarded
    /\ UNCHANGED <<workouts, currentScreen, inputVars, pending, logStore, nextSid>>

\* pauseTimer()
CallPauseTimer ==
    /\ timerPaused' = TRUE
    /\ timerIntervalRef' = EffectRef(timerActive, TRUE)
    /\ alertShown' = ""
    /\ UNCHANGED discarded
    /\ UNCHANGED <<workouts, activeWorkout, currentScreen, timerActive, timerSeconds,
                   inputVars, pending, logStore, nextSid>>

\* resumeTimer()
CallResumeTimer ==
    /\ timerPaused' = FALSE
    /\ timerIntervalRef' = EffectRef(timerActive, FALSE)
    /\ alertShown' = ""
    /\ UNCHANGED discarded
    /\ UNCHANGED <<workouts, activeWorkout, currentScreen, timerActive, timerSeconds,
                   inputVars, pending, logStore, nextSid>>

\* handleFinishWorkout(), up to its await: without a session it returns at once
CallFinishWorkout ==
    /\ IF Active
       THEN pending' = Append(pending, WorkoutLogOf(activeWorkout, bodyWeight, workoutNotes))
       ELSE UNCHANGED pending
    /\ FlushTimerEffect
    /\ alertShown' = ""
    /\ UNCHANGED discarded
    /\ UNCHANGED <<workouts, activeWorkout, currentScreen, inputVars, logStore, nextSid>>

CallLogSetStep ==
    \E e \in ExIndices : \E s \in 1..(Len(activeWorkout.exercises[e].loggedSets) + 1) :
        CallLogSet(e, s, "10", "135")

NextCalls ==
    \/ Step(StartStep)
    \/ Step(AppendOkStep)
    \/ Step(Tick)
    \/ Step(CallLogSetStep)
    \/ Step(CallPauseTimer)
    \/ Step(CallResumeTimer)
    \/ Step(CallFinishWorkout)

SpecCalls == Init /\ [][NextCalls]_vars

----------------------------------------------------------------------------
(* The rest timer over whole countdowns: one session of Push Day, its set   *)
(* inputs and buttons, the timer buttons and the interval callback, with no *)
(* bound on the number of handlers run                                      *)

\* the state HandleStartWorkout(TplPush) leaves behind Init
InitTimer ==
    /\ workouts = <<TplPull, TplPush, TplRest>>
    /\ activeWorkout = NewActiveWorkout(TplPush, 1)
    /\ currentScreen = "activeWorkout"
    /\ timerActive = FALSE
    /\ timerPaused = FALSE
    /\ timerSeconds = DefaultDuration
    /\ timerIntervalRef = FALSE
    /\ bodyWeight = ""
    /\ showBodyWeightInput = TRUE
    /\ workoutNotes = ""
    /\ pending = <<>>
    /\ logStore = <<>>
    /\ nextSid = 2
    /\ steps = 1
    /\ discarded = {}
    /\ alertShown = ""

\* a handler run that is not counted
Uncounted(A) == A /\ UNCHANGED steps

NextTimer ==
    \/ Uncounted(SetInputStep)
    \/ Uncounted(LogSetStep)
    \/ Uncounted(Discard)
    \/ Uncounted(PauseTimer)
    \/ Uncounted(ResumeTimer)
    \/ Uncounted(StopTimer)
    \/ Uncounted(Tick)

SpecTimer == InitTimer /\ [][NextTimer]_vars

\* setInterval(..., 1000): while the interval is installed its callback keeps
\* being run
SpecTimerLive == SpecTimer /\ WF_vars(Uncounted(Tick))

----------------------------------------------------------------------------
(* Properties *)

IsCompleted(set) == set.completed
CompletedOf(sets) == SelectSeq(sets, IsCompleted)

\* the <<exercise, set>> index pairs of a session
AllSets(w) == UNION {{<<e, s>> : s \in DOMAIN w.exercises[e].loggedSets} : e \in DOMAIN w.exercises}

SameSession == Active /\ Active' /\ activeWorkout'.sid = activeWorkout.sid

\* a step on which an addDoc call left the pending ones without an alert
AppendSucceeded == Len(pending') < Len(pending) /\ alertShown' = ""

\* C1: in every state with an Active session, start(template) is rejected and
\* leaves the existing session, with all its logged sets, unchanged.
C1_StartWhileActiveRejected ==
    [][(Active /\ StartStep) =>
          /\ Active'
          /\ activeWorkout'.templateId = activeWorkout.templateId
          /\ activeWorkout'.exercises = activeWorkout.exercises]_vars

\* C2: the step on which the append of finish() fails changes neither the
\* session (exercises, logged sets), nor the bodyWeight and notes inputs, nor
\* the store, and the session stays on the screen whose Finish button retries.
C2_FailedFinishKeepsSession ==
    [][(alertShown' # "") =>
          /\ UNCHANGED <<activeWorkout, bodyWeight, workoutNotes, logStore>>
          /\ (OnActiveScreen => OnActiveScreen')
          /\ Active => WorkoutLogOf(activeWorkout', bodyWeight', workoutNotes')
                          = WorkoutLogOf(activeWorkout, bodyWeight, workoutNotes)]_vars

\* a failed append left an Active session holding a logged set and typed inputs
C2_Witness ==
    /\ alertShown # ""
    /\ OnActiveScreen
    /\ bodyWeight # ""
    /\ \E p \in AllSets(activeWorkout) : SetAt(p[1], p[2]).completed

\* C3: no WorkoutLog in the store, and none handed to the store, contains a
\* LoggedSet with completed = FALSE.
C3_OnlyCompletedSetsPersisted ==
    \A log \in {logStore[i] : i \in DOMAIN logStore} \cup {pending[i] : i \in DOMAIN pending} :
        \A e \in DOMAIN log.exercises :
            \A s \in DOMAIN log.exercises[e].loggedSets :
                log.exercises[e].loggedSets[s].completed

\* a stored log holds one set of an exercise whose session had two
C3_Witness ==
    \E i \in DOMAIN logStore :
        \E e \in DOMAIN logStore[i].exercises :
            /\ Len(logStore[i].exercises[e].loggedSets) = 1
            /\ SeedLength(logStore[i].exercises[e].targetSets) = 2

\* C4: when the append of finish() succeeds and the session is released, the
\* stored log holds, for each exercise in order, exactly the completed sets of
\* the released session.
C4_LogHoldsCompletedSetsOfReleasedSession ==
    [][\A i \in DOMAIN pending :
          (AppendOk(i) /\ Active /\ activeWorkout.sid = pending[i].sid) =>
              /\ DOMAIN pending[i].exercises = DOMAIN activeWorkout.exercises
              /\ \A e \in DOMAIN activeWorkout.exercises :
                    pending[i].exercises[e].loggedSets
                        = CompletedOf(activeWorkout.exercises[e].loggedSets)]_vars

\* C5: the step on which an append of finish() succeeds releases the session,
\* clears the bodyWeight and notes inputs and adds to the store the record
\* handed over at finish; that record carries the inputs as they were at finish.
C5_SuccessfulFinishReleases ==
    [][/\ AppendSucceeded =>
            /\ activeWorkout' = NoWorkout
            /\ bodyWeight' = "" /\ workoutNotes' = ""
            /\ \E i \in DOMAIN pending :
                  /\ pending' = RemoveAt(pending, i)
                  /\ logStore' = Append(logStore, pending[i])
       /\ (Len(pending') > Len(pending)) =>
            /\ Active
            /\ pending'[Len(pending')].sid = activeWorkout.sid
            /\ pending'[Len(pending')].bodyWeight = bodyWeight
            /\ pending'[Len(pending')].notes = workoutNotes]_vars

\* Idle after a successful finish whose record carries both inputs
C5_Witness ==
    /\ ~Active
    /\ bodyWeight = "" /\ workoutNotes = ""
    /\ \E i \in DOMAIN logStore :
          logStore[i].bodyWeight = "170" /\ logStore[i].notes = "felt strong"

\* C6: start(template) leaves the store as it was, and the discard() that follows
\* leaves the system Idle, on the home screen, with the store still as it was.
C6_StartThenDiscardRoundTrip ==
    [][/\ StartStep => (logStore' = logStore /\ pending' = pending)
       /\ Discard => (/\ ~Active'
                      /\ currentScreen' = "home"
                      /\ logStore' = logStore /\ pending' = pending)]_vars

\* the state two steps into a run that started one session and is Idle again:
\* start followed at once by discard
C6_Witness ==
    /\ steps = 2 /\ nextSid = 2
    /\ ~Active
    /\ logStore = <<>> /\ pending = <<>>

\* C7: while a session exists, a step changes a set's completed flag only by
\* logSet on that set, from FALSE to TRUE; every other step (updateSetField,
\* addSet, tick, timer buttons, finish and its failure) keeps every flag and
\* every set in place.
C7_CompletedOnlyByLogSet ==
    [][SameSession =>
          /\ DOMAIN activeWorkout'.exercises = DOMAIN activeWorkout.exercises
          /\ \A p \in AllSets(activeWorkout) :
                /\ p \in AllSets(activeWorkout')
                /\ LET old == activeWorkout.exercises[p[1]].loggedSets[p[2]]
                       new == activeWorkout'.exercises[p[1]].loggedSets[p[2]]
                   IN  (new.completed # old.completed) =>
                          /\ ~old.completed /\ new.completed
                          /\ HandleLogSet(p[1], p[2])]_vars

\* a logged set was edited blank and a tick went by: it is still completed, next
\* to a set never logged
C7_Witness ==
    /\ Active
    /\ timerSeconds < DefaultDuration
    /\ \E p \in AllSets(activeWorkout) :
          SetAt(p[1], p[2]) = [reps |-> "", weight |-> "", completed |-> TRUE]
    /\ \E p \in AllSets(activeWorkout) : ~SetAt(p[1], p[2]).completed

\* C8: the step that completes a set keeps the reps and weight the record held,
\* and in that same step the rest timer is restarted: 180 seconds, running, not
\* paused, its interval live.
C8_LogSetRestartsTimerAtomically ==
    [][SameSession =>
          \A p \in AllSets(activeWorkout) :
             LET old == activeWorkout.exercises[p[1]].loggedSets[p[2]]
                 new == activeWorkout'.exercises[p[1]].loggedSets[p[2]]
             IN  (~old.completed /\ new.completed) =>
                    /\ new = [reps |-> old.reps, weight |-> old.weight, completed |-> TRUE]
                    /\ timerSeconds' = DefaultDuration
                    /\ timerActive' /\ ~timerPaused' /\ timerIntervalRef']_vars

\* reps 10 at weight 135 logged as the second set of the session, the timer
\* restarted at 180
C8_Witness ==
    /\ Active
    /\ \E p \in AllSets(activeWorkout) :
          SetAt(p[1], p[2]) = [reps |-> "10", weight |-> "135", completed |-> TRUE]
    /\ Cardinality({p \in AllSets(activeWorkout) : SetAt(p[1], p[2]).completed}) = 2
    /\ timerSeconds = DefaultDuration /\ timerActive /\ ~timerPaused

\* C9: a logSet step is taken only on a set that is not completed and has reps
\* or weight non-empty.
C9_LogSetOnlyWhenLoggable ==
    [][\A e \in ExIndices : \A s \in SetIndices(e) :
          HandleLogSet(e, s) =>
             /\ ~SetAt(e, s).completed
             /\ (SetAt(e, s).reps # "" \/ SetAt(e, s).weight # "")]_vars

\* a session with a completed set and a blank one: neither offers logSet
C9_Witness ==
    /\ OnActiveScreen
    /\ \E p \in AllSets(activeWorkout) : SetAt(p[1], p[2]).completed
    /\ \E p \in AllSets(activeWorkout) : SetAt(p[1], p[2]) = EmptySet
    /\ \A p \in AllSets(activeWorkout) : ~ENABLED HandleLogSet(p[1], p[2])

\* C10: on every session reached, updateSetField applied twice with the same
\* arguments gives what one application gives, and one application changes
\* nothing but the addressed field: the set's completed flag, its other field,
\* every other set and every exercise's identity stay.
C10_UpdateSetFieldIdempotent ==
    Active =>
       \A p \in AllSets(activeWorkout) : \A f \in Fields : \A v \in InputValues(f) :
          LET once == SetInputUpdate(activeWorkout, p[1], p[2], f, v)
              twice == SetInputUpdate(once, p[1], p[2], f, v)
              g == CHOOSE x \in Fields : x # f
          IN  /\ twice = once
              /\ once.exercises[p[1]].loggedSets[p[2]][f] = v
              /\ once.exercises[p[1]].loggedSets[p[2]].completed = SetAt(p[1], p[2]).completed
              /\ once.exercises[p[1]].loggedSets[p[2]][g] = SetAt(p[1], p[2])[g]
              /\ AllSets(once) = AllSets(activeWorkout)
              /\ \A q \in AllSets(activeWorkout) \ {p} :
                    once.exercises[q[1]].loggedSets[q[2]] = SetAt(q[1], q[2])
              /\ \A e \in DOMAIN activeWorkout.exercises :
                    once.exercises[e].id = activeWorkout.exercises[e].id

\* a completed set of a two-exercise session whose weight was edited after it
\* was logged with reps alone
C10_Witness ==
    /\ Active
    /\ Len(activeWorkout.exercises) = 2
    /\ \E p \in AllSets(activeWorkout) :
          SetAt(p[1], p[2]) = [reps |-> "", weight |-> "135", completed |-> TRUE]
    /\ activeWorkout.startTime = "plainObject"

----------------------------------------------------------------------------
\* the targetSets values that denote a positive integer, and the integer
PositiveTargets == {<<"1", 1>>, <<"2", 2>>, <<"3", 3>>}

\* the session is the one handleStartWorkout builds from template t
StartedFrom(w, t) ==
    /\ w.templateId = t.id
    /\ w.name = t.name
    /\ Len(w.exercises) = Len(t.exercises)
    /\ \A i \in DOMAIN t.exercises :
          /\ w.exercises[i].id = t.exercises[i].id
          /\ w.exercises[i].name = t.exercises[i].name
          /\ \A p \in PositiveTargets :
                t.exercises[i].targetSets = p[1] =>
                    /\ Len(w.exercises[i].loggedSets) = p[2]
                    /\ \A k \in 1..p[2] : w.exercises[i].loggedSets[k] = EmptySet

\* C11: a start builds an Active session with the template's id and name and
\* one exercise per template exercise, in order; an exercise whose targetSets
\* is the positive integer n gets exactly n sets, each with empty reps and
\* weight and completed = FALSE.
C11_StartSeedsSession ==
    [][nextSid' # nextSid =>
          /\ activeWorkout' # NoWorkout
          /\ activeWorkout'.sid = nextSid
          /\ \E i \in DOMAIN workouts : StartedFrom(activeWorkout', workouts[i])]_vars

\* a session fresh from the template with a two-set exercise
C11_Witness ==
    /\ Active
    /\ activeWorkout.templateId = TplPush.id
    /\ Len(activeWorkout.exercises) = 1
    /\ activeWorkout.exercises[1].loggedSets = <<EmptySet, EmptySet>>

----------------------------------------------------------------------------
\* C12: a tick while the timer is running and not paused decrements
\* timerSeconds by exactly 1 and never below 0; the tick that reaches 0 sets
\* timerActive to FALSE and leaves timerSeconds at 0; nothing but a tick
\* decrements, and from the auto-stopped 0 no tick moves timerSeconds again.
C12_TickDecrementsByOne ==
    [][/\ (Tick /\ timerActive /\ ~timerPaused) =>
              /\ timerSeconds >= 1
              /\ timerSeconds' = timerSeconds - 1
              /\ timerSeconds' >= 0
              /\ timerActive' = (timerSeconds' > 0)
       /\ timerSeconds' < timerSeconds => (Tick /\ timerSeconds' = timerSeconds - 1)
       /\ (timerSeconds = 0 /\ timerSeconds' # 0) =>
              (~Tick /\ timerSeconds' = DefaultDuration)]_vars

\* the countdown ran from 180 to 0 and stopped itself there
C12_Witness ==
    /\ timerSeconds = 0
    /\ ~timerActive
    /\ ~timerIntervalRef
    /\ Active

\* C13: pause() leaves timerSeconds unchanged; while the timer stays paused
\* no step changes timerSeconds or timerActive, and no tick runs; resume()
\* leaves timerSeconds at the frozen value with the countdown live again.
C13_PauseFreezesCountdown ==
    [][/\ PauseTimer => (timerSeconds' = timerSeconds /\ timerActive' /\ timerPaused')
       /\ (timerPaused /\ timerPaused') =>
              (timerSeconds' = timerSeconds /\ timerActive' = timerActive)
       /\ Tick => ~timerPaused
       /\ ResumeTimer =>
              /\ timerSeconds' = timerSeconds
              /\ timerActive' /\ ~timerPaused' /\ timerIntervalRef']_vars

\* a countdown paused part-way
C13_Witness ==
    /\ timerActive
    /\ timerPaused
    /\ ~timerIntervalRef
    /\ timerSeconds < DefaultDuration
    /\ timerSeconds > 0

\* C14: a timer start, from a stopped, running, paused or auto-stopped
\* timer, leaves timerSeconds at the duration, the timer running and not
\* paused, with the one interval live.
C14_StartFromAnyState ==
    [][LogSetStep =>
          /\ timerSeconds' = DefaultDuration
          /\ timerActive'
          /\ ~timerPaused'
          /\ timerIntervalRef']_vars

\* the timer restarted by a second Log Set, after the first had started it
C14_Witness ==
    /\ Active
    /\ \A k \in SetIndices(1) : SetAt(1, k).completed
    /\ Len(activeWorkout.exercises[1].loggedSets) = 2
    /\ timerActive /\ ~timerPaused /\ timerIntervalRef
    /\ timerSeconds = DefaultDuration

\* C15: a stop, by the Stop button or by discarding the session, from any
\* timer state leaves timerActive FALSE, timerPaused FALSE and timerSeconds
\* 180, whatever the remaining time was.
C15_StopResets ==
    [][(StopTimer \/ Discard) =>
          /\ ~timerActive'
          /\ ~timerPaused'
          /\ timerSeconds' = DefaultDuration
          /\ ~timerIntervalRef']_vars

\* a started timer stopped by the Stop button, the session still open
C15_Witness ==
    /\ Active
    /\ \E k \in SetIndices(1) : SetAt(1, k).completed
    /\ ~timerActive
    /\ ~timerPaused
    /\ timerSeconds = DefaultDuration

----------------------------------------------------------------------------
\* C16: once the timer is stopped (by the Stop button, by discard or by the
\* completion of finish) no tick changes timerSeconds: it stays 180 until
\* the next start, which sets 180 again.
C16_NoTickAfterStop ==
    [][(~timerActive /\ timerSeconds = DefaultDuration) =>
          timerSeconds' = DefaultDuration]_vars

----------------------------------------------------------------------------
\* C17: logSet called with a set index outside the exercise's range leaves
\* the session unchanged: no set is created, no array changes length, and
\* the timer is not started.
C17_OutOfRangeLeavesSession ==
    [][\A e \in ExIndices : \A s \in 1..(Len(activeWorkout.exercises[e].loggedSets) + 1) :
          (s \notin SetIndices(e) /\ CallLogSet(e, s, "10", "135")) =>
              UNCHANGED <<activeWorkout, timerActive, timerPaused, timerSeconds>>]_vars

\* C18: an operation invoked outside its valid state changes no state:
\* finish() without a session queues and stores no log, and pause() and
\* resume() on a timer that is not running leave timerActive, timerPaused
\* and timerSeconds unchanged.
C18_InvalidStateChangesNothing ==
    [][/\ (~Active /\ CallFinishWorkout) => UNCHANGED <<pending, logStore, activeWorkout>>
       /\ (~timerActive /\ (CallPauseTimer \/ CallResumeTimer)) =>
              UNCHANGED <<timerActive, timerPaused, timerSeconds>>]_vars

----------------------------------------------------------------------------
\* C19: a log in the store is never modified or removed: every step, by any
\* session, set, finish, discard or template handler, leaves each stored
\* log in place and unchanged; in particular the deletion of the template a
\* log's templateId names.
C19_HistoryAppendOnly ==
    [][/\ Len(logStore') >= Len(logStore)
       /\ \A i \in DOMAIN logStore : logStore'[i] = logStore[i]]_vars

\* a stored log whose template has been deleted
C19_Witness ==
    \E i \in DOMAIN logStore :
        /\ logStore[i].templateId = TplPush.id
        /\ \A k \in DOMAIN workouts : workouts[k].id # TplPush.id

----------------------------------------------------------------------------
NoneCompleted(w) == \A p \in AllSets(w) : ~w.exercises[p[1]].loggedSets[p[2]].completed

AllLoggedSetsEmpty(log) == \A e \in DOMAIN log.exercises : log.exercises[e].loggedSets = << >>

\* C20: finish is open to every Active session on screen, also one with no
\* completed set or with no exercise at all; the record it hands to the
\* store then keeps every session exercise with an empty loggedSets, and
\* that record is what a successful append stores.
C20_FinishWithoutCompletedSets ==
    [][/\ (OnActiveScreen /\ steps < MaxSteps) => ENABLED Step(HandleFinishWorkout)
       /\ (HandleFinishWorkout /\ NoneCompleted(activeWorkout)) =>
              /\ Len(pending') = Len(pending) + 1
              /\ pending'[Len(pending')].sid = activeWorkout.sid
              /\ Len(pending'[Len(pending')].exercises) = Len(activeWorkout.exercises)
              /\ AllLoggedSetsEmpty(pending'[Len(pending')])
       /\ AppendSucceeded =>
              \E i \in DOMAIN pending : logStore' = Append(logStore, pending[i])]_vars

\* stored: a log of a session with exercises and none of its sets completed,
\* and a log of a session without exercises
C20_Witness ==
    /\ \E i \in DOMAIN logStore :
          /\ Len(logStore[i].exercises) > 0
          /\ AllLoggedSetsEmpty(logStore[i])
    /\ \E i \in DOMAIN logStore : logStore[i].exercises = << >>

----------------------------------------------------------------------------
\* session w2 is session w with one empty set added at the end of exercise e
OneSetAdded(w, w2, e) ==
    /\ DOMAIN w2.exercises = DOMAIN w.exercises
    /\ Len(w2.exercises[e].loggedSets) = Len(w.exercises[e].loggedSets) + 1
    /\ w2.exercises[e].loggedSets[Len(w2.exercises[e].loggedSets)] =
          [reps |-> "", weight |-> "", completed |-> FALSE]
    /\ \A k \in DOMAIN w.exercises[e].loggedSets :
          w2.exercises[e].loggedSets[k] = w.exercises[e].loggedSets[k]
    /\ \A x \in DOMAIN w.exercises :
          x # e => w2.exercises[x].loggedSets = w.exercises[x].loggedSets
    /\ w2.sid = w.sid

\* C21: Add Set on exercise e appends exactly one empty, uncompleted set at
\* the end of e's sets and leaves every other set and the timer unchanged;
\* it is enabled on every exercise of the session on screen, whatever its
\* targetSets and however many sets it already has.
C21_AddSetAppendsOne ==
    [][/\ \A e \in ExIndices :
              /\ HandleAddSetToExercise(e) =>
                    /\ OneSetAdded(activeWorkout, activeWorkout', e)
                    /\ UNCHANGED <<timerActive, timerPaused, timerSeconds>>
              /\ (OnActiveScreen /\ steps < MaxSteps) =>
                    ENABLED Step(HandleAddSetToExercise(e))]_vars

\* an exercise with more sets than its targetSets of 1
C21_Witness ==
    /\ Active
    /\ activeWorkout.templateId = TplPull.id
    /\ activeWorkout.exercises[1].targetSets = "1"
    /\ Len(activeWorkout.exercises[1].loggedSets) >= 3

----------------------------------------------------------------------------
\* C22: with the interval callback run fairly, a timer that is running and
\* not paused eventually stands at 0 and not running, unless it is paused or
\* stopped on the way (a restart only postpones this: each one completes a
\* set, and the sets are finitely many).
C22_CountdownReachesZero ==
    (timerActive /\ ~timerPaused) ~>
        \/ (timerSeconds = 0 /\ ~timerActive)
        \/ timerPaused
        \/ (~timerActive /\ timerSeconds = DefaultDuration)

\* a countdown that was restarted once and then ran out undisturbed
C22_Witness ==
    /\ Active
    /\ \A k \in SetIndices(1) : SetAt(1, k).completed
    /\ timerSeconds = 0
    /\ ~timerActive
    /\ ~timerPaused

----------------------------------------------------------------------------
\* C23: the store holds at most one log per started session, also when
\* finish is invoked again while the first append is pending.
C23_AtMostOneLogPerSession ==
    \A i, j \in DOMAIN logStore : logStore[i].sid = logStore[j].sid => i = j

\* the log the step has just stored
StoredLog == logStore'[Len(logStore')]

\* C24: the successful completion of an append releases only the session
\* it was invoked on: if another session is Active by then, that session,
\* its bodyWeight and notes inputs and its rest timer are left as they are.
C24_CompletionReleasesOwnSession ==
    [][(AppendSucceeded /\ Len(logStore') = Len(logStore) + 1
          /\ StoredLog.sid \in discarded
          /\ Active /\ activeWorkout.sid # StoredLog.sid) =>
              /\ activeWorkout' = activeWorkout
              /\ UNCHANGED <<bodyWeight, workoutNotes>>
              /\ UNCHANGED <<timerActive, timerPaused, timerSeconds>>]_vars

----------------------------------------------------------------------------
\* C25: a session ended by the discard button never has a log in the store,
\* however the discard interleaves with a finish whose append is pending.
C25_DiscardedSessionHasNoLog ==
    \A i \in DOMAIN logStore : logStore[i].sid \notin discarded

----------------------------------------------------------------------------
\* C26: in every reachable state without an Active session the rest timer
\* is not running.
C26_IdleTimerNotRunning == ~Active => ~timerActive

\* Idle again after a session in which a set was logged, which started the
\* timer, and which was saved
C26_Witness ==
    /\ ~Active
    /\ ~timerActive
    /\ \E i \in DOMAIN logStore : \E e \in DOMAIN logStore[i].exercises :
          logStore[i].exercises[e].loggedSets # << >>

\* C27: every set of every stored log has reps or weight non-empty, whatever
\* edits and Log Set clicks came before the finish.
C27_PersistedSetsNonEmpty ==
    \A i \in DOMAIN logStore : \A e \in DOMAIN logStore[i].exercises :
        \A k \in DOMAIN logStore[i].exercises[e].loggedSets :
            \/ Truthy(logStore[i].exercises[e].loggedSets[k].reps)
            \/ Truthy(logStore[i].exercises[e].loggedSets[k].weight)

\* C28: in every reachable state a paused timer is a running timer.
C28_PausedImpliesRunning == timerPaused => timerActive

\* a timer paused one second before it would stop itself
C28_Witness ==
    /\ timerPaused
    /\ timerActive
    /\ timerSeconds = 1

====
